---- MODULE Spec2Model ----
(***************************************************************************)
(* A model of lib/cmcut.py: silent sections of a loudness timeseries, the  *)
(* CM duration units, nominal CM structures, the two CM matchers and the   *)
(* scene generator.  Seconds are integers: every frame rate the model uses *)
(* divides the frame indices it is applied to.                             *)
(***************************************************************************)
EXTENDS Integers, Sequences, FiniteSets

VARIABLES
    units,                  \* SpecUnits: the DurationSecUnits objects, each its durations_sec list
    unitsErr,               \* SpecUnits: the exception of the last call ("none" when it returned)
    call,                   \* the pure-function specifications: the arguments of the call
    ret,                    \* the pure-function specifications: its result, Pending before the call
    \* Spec: a caller of construct_program_scenes[_without_structure]
    mode,                   \* "structure": construct_program_scenes, "free": ..._without_structure
    loudness,               \* loudness.values
    duration_frame_threshold,
    frame_per_sec,
    duration_sec_units,     \* the caller's DurationSecUnits object: its durations_sec list
    cm_structures,
    last_scene_duration,
    has_monolithic_cm,
    pc,                     \* where the call stands: extract, match, search, generate, done, raised
    silent_sections,
    index,                  \* the number of silent sections the matcher's loop has taken
    cm_divider_candidates,
    cm_sections,
    structure_reference,
    target_cm_structure,
    margin_sec,
    nominal_cm_duration,
    continuity,
    scenes,                 \* ProgramScenes.scene_sections of the returned object
    error,                  \* the exception the call raised, "none" when it has not
    run,                    \* 1 for the first call, 2 for the call repeated on the same objects
    first_result,           \* the outcome of the first call
    matches,                \* per emitted CM section: the structure_reference, the index and the
                            \* first candidate's end_sec it was emitted with
    outcome                 \* the branch the last iteration of construct_cm_sections' loop took
                            \* and the number of candidates it held at line 373

unitVars == <<units, unitsErr>>
callVars == <<call, ret>>
inputVars == <<mode, loudness, duration_frame_threshold, frame_per_sec, cm_structures, last_scene_duration, has_monolithic_cm>>
scanVars == <<silent_sections, index, cm_divider_candidates, cm_sections, structure_reference, target_cm_structure, margin_sec, nominal_cm_duration, continuity, matches, outcome>>
pipeVars == <<inputVars, scanVars, duration_sec_units, pc, scenes, error, run, first_result>>
vars == <<unitVars, callVars, pipeVars>>

\* --------------------------------------------------------------------------
\* Bounds of the model
MaxObjects == 3
MaxDurations == 4
MaxCmSections == 2
MaxExtractFrames == 6
MaxThreshold == 2
MaxFollowing == 2
MaxComponents == 3
MaxFrames == 8
MaxFreeFrames == 10
MaxStructures == 2

\* --------------------------------------------------------------------------
\* Python helpers

Pending == [pending |-> TRUE]

Range(s) == {s[i] : i \in 1..Len(s)}

RECURSIVE InsertSorted(_, _)
InsertSorted(s, x) ==
    IF s = <<>> THEN <<x>>
    ELSE IF x < Head(s) THEN <<x>> \o s
    ELSE <<Head(s)>> \o InsertSorted(Tail(s), x)

\* sorted(list): a new list, ascending, duplicates kept
RECURSIVE sorted(_)
sorted(s) ==
    IF s = <<>> THEN <<>> ELSE InsertSorted(sorted(SubSeq(s, 1, Len(s) - 1)), s[Len(s)])

\* list.remove(x): drops the first occurrence of x
RECURSIVE list_remove(_, _)
list_remove(s, x) ==
    IF s = <<>> THEN <<>>
    ELSE IF Head(s) = x THEN Tail(s)
    ELSE <<Head(s)>> \o list_remove(Tail(s), x)

\* --------------------------------------------------------------------------
\* DurationSecUnits

BaselineShort == 15
BaselineLong == 30

\* the constructor's loop over the given values, from position i on
RECURSIVE DurationSecUnitsLoop(_, _, _)
DurationSecUnitsLoop(acc, durations_sec, i) ==
    IF i > Len(durations_sec) THEN [error |-> "none", durations_sec |-> sorted(acc)]
    ELSE IF durations_sec[i] <= 0 THEN [error |-> "ValueError", durations_sec |-> acc]
    ELSE DurationSecUnitsLoop(
            IF durations_sec[i] \in Range(acc) THEN acc ELSE Append(acc, durations_sec[i]),
            durations_sec, i + 1)

\* DurationSecUnits(durations_sec): the new object's list, or the exception
DurationSecUnits(durations_sec) ==
    IF Len(durations_sec) > 0
    THEN DurationSecUnitsLoop(<<BaselineShort, BaselineLong>>, durations_sec, 1)
    ELSE [error |-> "none", durations_sec |-> <<BaselineShort, BaselineLong>>]

\* self.append_duration(duration_sec): `receiver` is self.durations_sec after the
\* call, `result` the constructor's outcome for the returned object
append_duration(self, duration_sec) ==
    LET durations == Append(self, duration_sec)
    IN  [receiver |-> durations, result |-> DurationSecUnits(sorted(durations))]

\* self.remove_duration(duration_sec)
remove_duration(self, duration_sec) ==
    LET durations == IF duration_sec \in Range(self) THEN list_remove(self, duration_sec) ELSE self
    IN  [receiver |-> durations, result |-> DurationSecUnits(durations)]

\* --------------------------------------------------------------------------
\* SilentSection

\* the constructor with the comparison of the two frame indices left out
SilentSection_noOrderCheck(start_frame_index, end_frame_index, rate) ==
    IF start_frame_index < 0 THEN [error |-> "ValueError"]
    ELSE IF end_frame_index <= 0 THEN [error |-> "ValueError"]
    ELSE IF rate <= 0 THEN [error |-> "ValueError"]
    ELSE [error |-> "none",
          frame_per_sec |-> rate,
          start_sec |-> start_frame_index \div rate,
          end_sec |-> end_frame_index \div rate]

\* SilentSection(start_frame_index, end_frame_index, frame_per_sec); the frame
\* indices are ints, so the two type checks pass
SilentSection(start_frame_index, end_frame_index, rate) ==
    IF start_frame_index < 0 THEN [error |-> "ValueError"]
    ELSE IF end_frame_index <= 0 THEN [error |-> "ValueError"]
    ELSE IF start_frame_index >= end_frame_index THEN [error |-> "ValueError"]
    ELSE IF rate <= 0 THEN [error |-> "ValueError"]
    ELSE [error |-> "none",
          frame_per_sec |-> rate,
          start_sec |-> start_frame_index \div rate,
          end_sec |-> end_frame_index \div rate]

\* the loop of is_cm_divider_candidate over following_sections, from position i on
RECURSIVE is_cm_divider_candidate_loop(_, _, _, _, _)
is_cm_divider_candidate_loop(self, following_sections, durations_sec, margin, i) ==
    IF i > Len(following_sections) THEN FALSE
    ELSE LET duration_sec == following_sections[i].end_sec - self.start_sec
             largest_duration_unit_sec == durations_sec[Len(durations_sec)]
         IN  IF largest_duration_unit_sec + margin <= duration_sec THEN FALSE
             ELSE IF \E k \in 1..Len(durations_sec) :
                        /\ durations_sec[k] < duration_sec
                        /\ duration_sec <= durations_sec[k] + margin
                  THEN TRUE
                  ELSE is_cm_divider_candidate_loop(
                          self, following_sections, durations_sec, margin, i + 1)

\* self.is_cm_divider_candidate(following_sections, duration_sec_units, margin_sec),
\* durations_sec being duration_sec_units.durations_sec
is_cm_divider_candidate(self, following_sections, durations_sec, margin) ==
    is_cm_divider_candidate_loop(self, following_sections, durations_sec, margin, 1)

\* --------------------------------------------------------------------------
\* NominalCMStructure

\* A raw dictionary is the sequence of its <<key, value>> items in insertion
\* order, a raw value the record of its Python type and its number.
IsNumber(v) == v.type \in {"int", "float"}

CMKeys == {"cm", "scene", "monolithic_cm"}

\* the constructor's loop over the keys, from position i on
RECURSIVE NominalCMStructureLoop(_, _, _, _, _)
NominalCMStructureLoop(cm_structure, margin, nominal_duration, composition, i) ==
    IF i > Len(cm_structure)
    THEN IF ~IsNumber(margin) THEN [error |-> "TypeError"]
         ELSE IF margin.val <= 0 THEN [error |-> "ValueError"]
         ELSE [error |-> "none",
               composition |-> composition,
               nominal_duration |-> nominal_duration,
               margin_sec |-> margin.val]
    ELSE LET key == cm_structure[i][1]
             value == cm_structure[i][2]
         IN  IF key \notin CMKeys THEN [error |-> "KeyError"]
             ELSE IF ~IsNumber(value) THEN [error |-> "TypeError"]
             ELSE IF value.val <= 0 THEN [error |-> "ValueError"]
             ELSE NominalCMStructureLoop(cm_structure, margin,
                     nominal_duration + value.val,
                     Append(composition, <<key, value.val>>), i + 1)

\* NominalCMStructure without the refusal of a scene alone
NominalCMStructure_sceneAlone(cm_structure, margin) ==
    IF Len(cm_structure) > 2 THEN [error |-> "ValueError"]
    ELSE IF Len(cm_structure) = 0 THEN [error |-> "ValueError"]
    ELSE NominalCMStructureLoop(cm_structure, margin, 0, <<>>, 1)

\* NominalCMStructure(cm_structure, margin_sec): the object, or the exception
NominalCMStructure(cm_structure, margin) ==
    IF Len(cm_structure) > 2 THEN [error |-> "ValueError"]
    ELSE IF Len(cm_structure) = 1 /\ cm_structure[1][1] = "scene" THEN [error |-> "ValueError"]
    ELSE IF Len(cm_structure) = 0 THEN [error |-> "ValueError"]
    ELSE NominalCMStructureLoop(cm_structure, margin, 0, <<>>, 1)

Keys(composition) == {composition[i][1] : i \in 1..Len(composition)}

\* composition[key]
Lookup(composition, key) ==
    composition[CHOOSE i \in 1..Len(composition) : composition[i][1] = key][2]

\* Python's None
NoneValue == <<>>

\* get_actual_cm_section taking the scene off the left edge wherever it is declared
get_actual_cm_section_sceneAlwaysLeft(self, last_cm_divider_end_sec, next_cm_divider_start_sec) ==
    IF Len(self.composition) = 1
    THEN <<last_cm_divider_end_sec, next_cm_divider_start_sec>>
    ELSE IF self.composition[1][1] = "scene"
    THEN <<last_cm_divider_end_sec + self.composition[1][2], next_cm_divider_start_sec>>
    ELSE IF self.composition[2][1] = "scene"
    THEN <<last_cm_divider_end_sec + self.composition[2][2], next_cm_divider_start_sec>>
    ELSE NoneValue

\* self.get_actual_cm_section(last_cm_divider_end_sec, next_cm_divider_start_sec)
get_actual_cm_section(self, last_cm_divider_end_sec, next_cm_divider_start_sec) ==
    IF Len(self.composition) = 1
    THEN <<last_cm_divider_end_sec, next_cm_divider_start_sec>>
    ELSE IF self.composition[1][1] = "scene"
    THEN <<last_cm_divider_end_sec + self.composition[1][2], next_cm_divider_start_sec>>
    ELSE IF self.composition[2][1] = "scene"
    THEN <<last_cm_divider_end_sec, next_cm_divider_start_sec - self.composition[2][2]>>
    ELSE NoneValue

\* --------------------------------------------------------------------------
\* ProgramScenes

starting_range_sec == 5
end_margin_sec == 1

\* the loop of extract_silent_sections over the frames, from position i on
\* (frame_index = i - 1); start_frame_index is read only after a zero frame set it
RECURSIVE extract_silent_sections_loop(_, _, _, _, _, _, _, _)
extract_silent_sections_loop(values, threshold, rate, found, silent_duration, last_loudness, start_frame_index, i) ==
    IF i > Len(values) THEN [error |-> "none", silent_sections |-> found]
    ELSE LET frame_index == i - 1
             level == values[i]
         IN  IF level = 0
             THEN extract_silent_sections_loop(values, threshold, rate,
                      found, silent_duration + 1, level,
                      IF last_loudness # 0 THEN frame_index ELSE start_frame_index, i + 1)
             ELSE IF silent_duration > 0 /\ silent_duration > threshold
             THEN LET section == SilentSection(start_frame_index, frame_index, rate)
                  IN  IF section.error # "none"
                      THEN [error |-> section.error, silent_sections |-> found]
                      ELSE extract_silent_sections_loop(values, threshold,
                               rate, Append(found, section), 0, level,
                               start_frame_index, i + 1)
             ELSE extract_silent_sections_loop(values, threshold, rate,
                      found, 0, level, start_frame_index, i + 1)

\* extract_silent_sections keeping a run whose length equals the threshold
extract_silent_sections_atThreshold(values, threshold, rate) ==
    extract_silent_sections_loop(values, threshold - 1, rate,
                                 <<>>, 0, -1, -1, 1)

\* ProgramScenes.extract_silent_sections(loudness, duration_frame_threshold, frame_per_sec),
\* values being loudness.values
extract_silent_sections(values, threshold, rate) ==
    extract_silent_sections_loop(values, threshold, rate,
                                 <<>>, 0, -1, -1, 1)

\* the loop of generate_scenes over cm_sections, from position i on; subscripting
\* a section that is None raises TypeError
RECURSIVE generate_scenes_loop(_, _, _, _, _, _)
generate_scenes_loop(last_end_sec_candidate, sections, last_duration, acc, start_sec, i) ==
    IF i > Len(sections)
    THEN [error |-> "none",
          scenes |-> Append(acc,
              IF last_duration # 0
              THEN <<start_sec, start_sec + last_duration + end_margin_sec>>
              ELSE <<start_sec, last_end_sec_candidate>>)]
    ELSE IF sections[i] = NoneValue THEN [error |-> "TypeError", scenes |-> acc]
    ELSE generate_scenes_loop(last_end_sec_candidate, sections, last_duration,
             Append(acc, <<start_sec, sections[i][1]>>), sections[i][2], i + 1)

\* generate_scenes pulling the opening cursor forward also at exactly 5 s
generate_scenes_inclusive(first_start_sec_candidate, last_end_sec_candidate, sections, last_duration) ==
    generate_scenes_loop(last_end_sec_candidate, sections, last_duration, <<>>,
        IF first_start_sec_candidate <= starting_range_sec
        THEN first_start_sec_candidate ELSE 0,
        1)

\* ProgramScenes.generate_scenes(first_start_sec_candidate, last_end_sec_candidate,
\*                               cm_sections, last_scene_duration)
generate_scenes(first_start_sec_candidate, last_end_sec_candidate, sections, last_duration) ==
    generate_scenes_loop(last_end_sec_candidate, sections, last_duration, <<>>,
        IF first_start_sec_candidate < starting_range_sec
        THEN first_start_sec_candidate ELSE 0,
        1)

\* --------------------------------------------------------------------------
\* What a specification leaves alone

NoStructure == [error |-> "none", composition |-> <<>>, nominal_duration |-> 0, margin_sec |-> 0]

\* no iteration of the matcher's loop has run
NoOutcome == [kind |-> "none", count |-> 0]

ScanReset ==
    /\ silent_sections = <<>>
    /\ index = 0
    /\ cm_divider_candidates = <<>>
    /\ cm_sections = <<>>
    /\ structure_reference = 0
    /\ target_cm_structure = NoStructure
    /\ margin_sec = 0
    /\ nominal_cm_duration = 0
    /\ continuity = FALSE
    /\ matches = <<>>
    /\ outcome = NoOutcome

IdleUnits == units = <<>> /\ unitsErr = "none"

IdleCall == call = Pending /\ ret = Pending

IdlePipeline ==
    /\ mode = "idle"
    /\ loudness = <<>>
    /\ duration_frame_threshold = 0
    /\ frame_per_sec = 1
    /\ duration_sec_units = <<>>
    /\ cm_structures = <<>>
    /\ last_scene_duration = 0
    /\ has_monolithic_cm = FALSE
    /\ pc = "idle"
    /\ ScanReset
    /\ scenes = <<>>
    /\ error = "none"
    /\ run = 0
    /\ first_result = Pending

\* --------------------------------------------------------------------------
\* SpecUnits: a caller that builds duration-unit sets and updates them

UnitInputs == {<<>>, <<10>>, <<20, 10>>, <<15>>, <<0>>}
UnitValues == {0, 10, 15, 20}

InitUnits ==
    /\ IdleUnits
    /\ IdleCall
    /\ IdlePipeline

UnitsConstruct ==
    /\ Len(units) < MaxObjects
    /\ \E input \in UnitInputs :
        LET r == DurationSecUnits(input)
        IN  /\ units' = IF r.error = "none" THEN Append(units, r.durations_sec) ELSE units
            /\ unitsErr' = r.error
    /\ UNCHANGED <<callVars, pipeVars>>

UnitsAppend ==
    /\ Len(units) < MaxObjects
    /\ \E o \in 1..Len(units), v \in UnitValues :
        /\ Len(units[o]) < MaxDurations
        /\ LET r == append_duration(units[o], v)
               mutated == [units EXCEPT ![o] = r.receiver]
           IN  /\ units' = IF r.result.error = "none"
                           THEN Append(mutated, r.result.durations_sec) ELSE mutated
               /\ unitsErr' = r.result.error
    /\ UNCHANGED <<callVars, pipeVars>>

UnitsRemove ==
    /\ Len(units) < MaxObjects
    /\ \E o \in 1..Len(units), v \in UnitValues :
        LET r == remove_duration(units[o], v)
            mutated == [units EXCEPT ![o] = r.receiver]
        IN  /\ units' = IF r.result.error = "none"
                        THEN Append(mutated, r.result.durations_sec) ELSE mutated
            /\ unitsErr' = r.result.error
    /\ UNCHANGED <<callVars, pipeVars>>

NextUnits == UnitsConstruct \/ UnitsAppend \/ UnitsRemove

SpecUnits == InitUnits /\ [][NextUnits]_vars

\* C7: append_duration and remove_duration are functional updates: a call
\* leaves the durations_sec list of every existing object, the receiver
\* included, as it was, whether the call returns or raises.
C7_ReceiverUnchanged ==
    [][\A o \in 1..Len(units) : units'[o] = units[o]]_vars

IsSortedUnique(s) == \A i \in 1..(Len(s) - 1) : s[i] < s[i + 1]

WellFormedUnits(s) ==
    /\ Len(s) > 0
    /\ \A i \in 1..Len(s) : s[i] > 0
    /\ IsSortedUnique(s)
    /\ BaselineShort \in Range(s)
    /\ BaselineLong \in Range(s)
    /\ \A i \in 1..Len(s) : s[i] <= s[Len(s)]

\* C8: every DurationSecUnits object, in every reachable state, holds a list
\* that is non-empty, strictly positive, sorted ascending, free of duplicates
\* and contains 15 and 30, so that its last element is its maximum.
C8_UnitsWellFormed == \A o \in 1..Len(units) : WellFormedUnits(units[o])

\* --------------------------------------------------------------------------
\* Sequences of at most n elements of S, and those without a repeated element
SeqsUpTo(S, n) == UNION {[1..k -> S] : k \in 0..n}

DistinctSeqsUpTo(S, n) == {q \in SeqsUpTo(S, n) : \A i, j \in 1..Len(q) : i # j => q[i] # q[j]}

\* --------------------------------------------------------------------------
\* SpecGen: calls of generate_scenes

GenFirstStarts == 3..7
GenLastEnds == {20, 25, 30}
GenLastSceneDurations == {0, 5, 7}
GenCmSections == {<<5, 10>>, <<12, 15>>, <<9, 12>>, <<15, 20>>, <<8, 12>>, <<16, 22>>}

InitGen ==
    /\ IdleUnits
    /\ IdlePipeline
    /\ ret = Pending
    /\ \E f \in GenFirstStarts, l \in GenLastEnds, d \in GenLastSceneDurations,
          c \in SeqsUpTo(GenCmSections, MaxCmSections) :
            call = [fn |-> "generate_scenes", first_start_sec_candidate |-> f,
                    last_end_sec_candidate |-> l, cm_sections |-> c,
                    last_scene_duration |-> d]

GenCall ==
    /\ ret = Pending
    /\ ret' = generate_scenes(call.first_start_sec_candidate, call.last_end_sec_candidate,
                              call.cm_sections, call.last_scene_duration)
    /\ UNCHANGED <<unitVars, pipeVars, call>>

NextGen == GenCall

SpecGen == InitGen /\ [][NextGen]_vars

\* C2: generate_scenes returns len(cm_sections)+1 scenes; the first starts at
\* first_start_sec_candidate when that is below 5 and at 0 otherwise; scene k
\* ends at the start of CM section k and scene k+1 starts at its end; the last
\* scene ends at its start + last_scene_duration + 1 when last_scene_duration is
\* non-zero and at last_end_sec_candidate when it is zero.
C2_GenerateScenes ==
    ret # Pending =>
        LET out == ret.scenes
            n == Len(call.cm_sections)
        IN  /\ ret.error = "none"
            /\ Len(out) = n + 1
            /\ out[1][1] = (IF call.first_start_sec_candidate < 5
                            THEN call.first_start_sec_candidate ELSE 0)
            /\ \A k \in 1..n : /\ out[k][2] = call.cm_sections[k][1]
                               /\ out[k + 1][1] = call.cm_sections[k][2]
            /\ out[n + 1][2] = (IF call.last_scene_duration # 0
                                THEN out[n + 1][1] + call.last_scene_duration + 1
                                ELSE call.last_end_sec_candidate)

\* the first case of test_generate_scenes has been computed
C2_Witness ==
    /\ ret # Pending
    /\ call.first_start_sec_candidate = 3
    /\ call.last_end_sec_candidate = 20
    /\ call.cm_sections = <<<<5, 10>>, <<12, 15>>>>
    /\ call.last_scene_duration = 5
    /\ ret.scenes = <<<<3, 5>>, <<10, 12>>, <<15, 21>>>>

\* --------------------------------------------------------------------------
\* SpecExtract: calls of extract_silent_sections

LoudnessLevels == {0, 1, 2}
FrameRates == {1}

InitExtract ==
    /\ IdleUnits
    /\ IdlePipeline
    /\ ret = Pending
    /\ \E k \in 1..MaxExtractFrames, t \in 0..MaxThreshold, r \in FrameRates :
        \E v \in [1..k -> LoudnessLevels] :
            call = [fn |-> "extract_silent_sections", values |-> v,
                    duration_frame_threshold |-> t, frame_per_sec |-> r]

ExtractCall ==
    /\ ret = Pending
    /\ ret' = extract_silent_sections(call.values, call.duration_frame_threshold,
                                      call.frame_per_sec)
    /\ UNCHANGED <<unitVars, pipeVars, call>>

NextExtract == ExtractCall

SpecExtract == InitExtract /\ [][NextExtract]_vars

\* the frame-index pairs <<a, b>> (0-based): frames a..b-1 are a maximal run of
\* zero frames, frame b is non-zero and closes it, and the run is longer than t
ClosedRuns(v, t) ==
    {<<a, b>> \in (0..Len(v)) \X (0..Len(v)) :
        /\ a < b
        /\ b < Len(v)
        /\ \A f \in a..(b - 1) : v[f + 1] = 0
        /\ v[b + 1] # 0
        /\ (a = 0 \/ v[a] # 0)
        /\ b - a > t}

\* C4: extract_silent_sections emits, in scan order, exactly one section per
\* maximal run of zero frames that a non-zero frame closes and that is longer
\* than the threshold: (first zero frame, closing frame). Shorter runs and a
\* trailing run that reaches the end of the sequence emit nothing.
C4_ExtractSilentSections ==
    (ret # Pending /\ call.fn = "extract_silent_sections") =>
        LET out == ret.silent_sections
            pair(i) == <<out[i].start_sec * call.frame_per_sec,
                         out[i].end_sec * call.frame_per_sec>>
        IN  /\ ret.error = "none"
            /\ {pair(i) : i \in 1..Len(out)}
                  = ClosedRuns(call.values, call.duration_frame_threshold)
            /\ \A i \in 1..(Len(out) - 1) : out[i].end_sec < out[i + 1].start_sec

\* a call that emitted a section, dropped a run at the threshold and dropped a
\* trailing run
C4_Witness ==
    /\ ret # Pending
    /\ call.fn = "extract_silent_sections"
    /\ call.values = <<0, 0, 1, 0, 2, 0>>
    /\ call.duration_frame_threshold = 1
    /\ Len(ret.silent_sections) = 1
    /\ ret.silent_sections[1].start_sec = 0
    /\ ret.silent_sections[1].end_sec = 2

\* --------------------------------------------------------------------------
\* SpecCand: calls of is_cm_divider_candidate on a duration-unit set that the
\* caller built and may have used as the receiver of append_duration, as
\* construct_cm_sections does with its argument

CandUnitInputs == {<<>>, <<2>>, <<1, 2>>, <<40>>}
CandAppended == {10, 40}
CandEnds == {3, 11, 16, 17, 31, 32, 41, 42}
CandMargins == {1, 2}
CandSections == {SilentSection(e - 1, e, 1) : e \in CandEnds}

InitCand ==
    /\ IdleUnits
    /\ IdlePipeline
    /\ ret = Pending
    /\ \E input \in CandUnitInputs, m \in CandMargins,
          f \in DistinctSeqsUpTo(CandSections, MaxFollowing) :
            call = [fn |-> "is_cm_divider_candidate",
                    self |-> SilentSection(0, 1, 1),
                    following_sections |-> f,
                    durations_sec |-> DurationSecUnits(input).durations_sec,
                    margin_sec |-> m]

CandAppendDuration ==
    /\ ret = Pending
    /\ Len(call.durations_sec) <= MaxDurations
    /\ \E v \in CandAppended :
        call' = [call EXCEPT !.durations_sec = append_duration(@, v).receiver]
    /\ UNCHANGED <<unitVars, pipeVars, ret>>

CandCall ==
    /\ ret = Pending
    /\ ret' = [result |-> is_cm_divider_candidate(call.self, call.following_sections,
                                                  call.durations_sec, call.margin_sec)]
    /\ UNCHANGED <<unitVars, pipeVars, call>>

NextCand == CandAppendDuration \/ CandCall

SpecCand == InitCand /\ [][NextCand]_vars

SetMax(S) == CHOOSE x \in S : \A y \in S : y <= x

\* the answer the specification describes: some section scanned before the first one
\* whose gap reaches max(units) + margin lies in the band of some unit
CandidateContract(self, following, unitSet, margin) ==
    LET gap(i) == following[i].end_sec - self.start_sec
        stops == {i \in 1..Len(following) : gap(i) >= SetMax(unitSet) + margin}
        stop == IF stops = {} THEN Len(following) + 1
                ELSE CHOOSE i \in stops : \A j \in stops : i <= j
    IN  \E i \in 1..(stop - 1) : \E u \in unitSet : u < gap(i) /\ gap(i) <= u + margin

\* C3: is_cm_divider_candidate returns true exactly when, scanning the
\* following sections in order up to the first whose gap is at least
\* max(duration units) + margin, some scanned section and some unit u satisfy
\* u < gap <= u + margin; the unit set holds 15 and 30.
C3_DividerCandidate ==
    (ret # Pending /\ call.fn = "is_cm_divider_candidate") =>
        /\ ret.result = CandidateContract(call.self, call.following_sections,
                                          Range(call.durations_sec), call.margin_sec)
        /\ {15, 30} \subseteq Range(call.durations_sec)

\* --------------------------------------------------------------------------
\* SpecStruct: constructions of NominalCMStructure

RawValues == {[type |-> "int", val |-> v] : v \in 0..2} \cup {[type |-> "str", val |-> 0]}
RawKeys == CMKeys \cup {"other"}
RawDicts ==
    {q \in SeqsUpTo(RawKeys \X RawValues, MaxComponents) :
        \A i, j \in 1..Len(q) : i # j => q[i][1] # q[j][1]}

InitStruct ==
    /\ IdleUnits
    /\ IdlePipeline
    /\ ret = Pending
    /\ \E c \in RawDicts, m \in RawValues :
        call = [fn |-> "NominalCMStructure", cm_structure |-> c, margin_sec |-> m]

StructConstruct ==
    /\ ret = Pending
    /\ ret' = NominalCMStructure(call.cm_structure, call.margin_sec)
    /\ UNCHANGED <<unitVars, pipeVars, call>>

NextStruct == StructConstruct

SpecStruct == InitStruct /\ [][NextStruct]_vars

RECURSIVE SumOfValues(_)
SumOfValues(composition) ==
    IF composition = <<>> THEN 0 ELSE Head(composition)[2] + SumOfValues(Tail(composition))

Malformed(cm_structure, margin) ==
    \/ Len(cm_structure) = 0
    \/ Len(cm_structure) > 2
    \/ Keys(cm_structure) = {"scene"}
    \/ \E i \in 1..Len(cm_structure) :
        \/ cm_structure[i][1] \notin {"cm", "scene", "monolithic_cm"}
        \/ cm_structure[i][2].type \notin {"int", "float"}
        \/ cm_structure[i][2].val <= 0
    \/ margin.type \notin {"int", "float"}
    \/ margin.val <= 0

\* C10: constructing a NominalCMStructure fails when the mapping is empty, has
\* more than two components, is the scene alone, has a key outside cm, scene,
\* monolithic_cm, has a non-numeric or non-positive duration or margin; an
\* accepted one has one or two components, at least one of them cm or
\* monolithic_cm, and nominal_duration is the sum of its durations.
C10_StructureValidation ==
    (ret # Pending /\ call.fn = "NominalCMStructure") =>
        /\ Malformed(call.cm_structure, call.margin_sec) => ret.error # "none"
        /\ ret.error = "none" =>
            /\ Len(ret.composition) \in {1, 2}
            /\ Len(ret.composition) = Len(call.cm_structure)
            /\ Keys(ret.composition) \cap {"cm", "monolithic_cm"} # {}
            /\ ret.nominal_duration = SumOfValues(ret.composition)
            /\ \A i \in 1..Len(ret.composition) :
                ret.composition[i] = <<call.cm_structure[i][1], call.cm_structure[i][2].val>>

\* a scene of 1 s followed by a cm of 2 s was accepted with nominal_duration 3
C10_Witness ==
    /\ ret # Pending
    /\ call.fn = "NominalCMStructure"
    /\ Len(call.cm_structure) = 2
    /\ call.cm_structure[1][1] = "scene"
    /\ call.cm_structure[2][1] = "cm"
    /\ ret.error = "none"
    /\ ret.nominal_duration = 3

\* --------------------------------------------------------------------------
\* Spec: ProgramScenes.construct_program_scenes and
\* construct_program_scenes_without_structure, called twice in succession on
\* the same loudness, duration units and CM structures

search_margin_sec == 1

IntValue(v) == [type |-> "int", val |-> v]

\* FrameLoudness(loudness_values): floats, here 0.0 and 1.0
FrameLoudness(loudness_values) ==
    IF Len(loudness_values) <= 0 THEN [error |-> "TypeError"]
    ELSE IF \E i \in 1..Len(loudness_values) : loudness_values[i] < 0 THEN [error |-> "TypeError"]
    ELSE [error |-> "none", values |-> loudness_values]

PipelineLoudness ==
    {l \in [1..MaxFrames -> {0, 1}] : FrameLoudness(l).error = "none"}

\* the loudness of the structure-free calls
FreeLoudness ==
    {l \in [1..MaxFreeFrames -> {0, 1}] : FrameLoudness(l).error = "none"}

PipelineUnits ==
    {DurationSecUnits(d).durations_sec : d \in {<<2>>}}

PipelineStructures ==
    {c \in {NominalCMStructure(raw[1], IntValue(raw[2])) :
                raw \in {<< << <<"cm", IntValue(2)>> >>, 2 >>,
                         << << <<"cm", IntValue(6)>> >>, 1 >>,
                         << << <<"scene", IntValue(1)>>, <<"cm", IntValue(1)>> >>, 2 >>,
                         << << <<"monolithic_cm", IntValue(1)>> >>, 2 >>,
                         << << <<"cm", IntValue(1)>>, <<"monolithic_cm", IntValue(1)>> >>, 2 >>}} :
        c.error = "none"}

\* <<has_monolithic_cm, last_scene_duration>> of a structure-guided call
PipelineFlags == {<<FALSE, 2>>, <<TRUE, 0>>}

\* the arguments of a call of either entry point, the structures of a
\* structure-guided call being drawn from pool
InitPipeline(pool) ==
    /\ IdleUnits
    /\ IdleCall
    /\ mode \in {"structure", "free"}
    /\ loudness \in IF mode = "free" THEN FreeLoudness ELSE PipelineLoudness
    /\ duration_frame_threshold = 0
    /\ frame_per_sec \in FrameRates
    /\ duration_sec_units \in PipelineUnits
    /\ IF mode = "structure"
       THEN /\ cm_structures \in SeqsUpTo(pool, MaxStructures)
            /\ \E f \in PipelineFlags : has_monolithic_cm = f[1] /\ last_scene_duration = f[2]
       ELSE /\ cm_structures = <<>>
            /\ last_scene_duration = 0
            /\ has_monolithic_cm = FALSE
    /\ pc = "extract"
    /\ ScanReset
    /\ scenes = <<>>
    /\ error = "none"
    /\ run = 1
    /\ first_result = Pending

Init == InitPipeline(PipelineStructures)

cm_num_threshold == IF has_monolithic_cm THEN 0 ELSE 1

\* lines 262 and 297, and the matcher's code before its loop
Extract ==
    /\ pc = "extract"
    /\ LET r == extract_silent_sections(loudness, duration_frame_threshold, frame_per_sec)
       IN  /\ silent_sections' = r.silent_sections
           /\ IF r.error # "none"
              THEN /\ pc' = "raised"
                   /\ error' = r.error
                   /\ UNCHANGED <<target_cm_structure, margin_sec, nominal_cm_duration>>
              ELSE /\ error' = error
                   /\ IF mode = "free"
                      THEN /\ pc' = "search"
                           /\ margin_sec' = search_margin_sec
                           /\ UNCHANGED <<target_cm_structure, nominal_cm_duration>>
                      ELSE IF Len(cm_structures) = 0
                      THEN /\ pc' = "generate"
                           /\ UNCHANGED <<target_cm_structure, margin_sec, nominal_cm_duration>>
                      ELSE /\ pc' = "match"
                           /\ target_cm_structure' = cm_structures[1]
                           /\ margin_sec' = cm_structures[1].margin_sec
                           /\ nominal_cm_duration' = cm_structures[1].nominal_duration
    /\ UNCHANGED <<index, cm_divider_candidates, cm_sections, structure_reference,
                   continuity, matches, outcome>>
    /\ UNCHANGED <<unitVars, callVars, inputVars, duration_sec_units, scenes, run, first_result>>

\* lines 388-392 with the break left out: the scan goes on with the last structure
advance_structure_noBreak(reference) ==
    IF reference < Len(cm_structures)
    THEN [break |-> FALSE,
          target_cm_structure |-> cm_structures[reference + 1],
          nominal_cm_duration |-> cm_structures[reference + 1].nominal_duration]
    ELSE [break |-> FALSE,
          target_cm_structure |-> target_cm_structure,
          nominal_cm_duration |-> nominal_cm_duration]

\* lines 388-392, reference being structure_reference after line 387: the next
\* structure becomes the target, or the loop breaks when none is left
advance_structure(reference) ==
    IF reference < Len(cm_structures)
    THEN [break |-> FALSE,
          target_cm_structure |-> cm_structures[reference + 1],
          nominal_cm_duration |-> cm_structures[reference + 1].nominal_duration]
    ELSE [break |-> TRUE,
          target_cm_structure |-> target_cm_structure,
          nominal_cm_duration |-> nominal_cm_duration]

\* the silent section the loop of construct_cm_sections or of search_cm_sections
\* is about to process
current_section == silent_sections[index + 1]

\* line 368: the target holds a monolithic component
target_is_monolithic == "monolithic_cm" \in Keys(target_cm_structure.composition)

\* lines 367-369: the units handed to the classifier for the current section; the
\* deep copy of line 367 has the caller's list as it is at that moment
tmp_duration_sec_units ==
    IF target_is_monolithic
    THEN append_duration(duration_sec_units,
             Lookup(target_cm_structure.composition, "monolithic_cm")).result.durations_sec
    ELSE duration_sec_units

\* lines 370-372: the candidates after the current section was classified
candidates_after_classification ==
    IF is_cm_divider_candidate(current_section,
           SubSeq(silent_sections, index + 2, Len(silent_sections)),
           tmp_duration_sec_units, margin_sec)
    THEN Append(cm_divider_candidates, current_section)
    ELSE cm_divider_candidates

\* line 373 alone: the rule of lines 374-375 for a monolithic target left out
candidates_could_be_cm_noMonolithicRule ==
    Len(candidates_after_classification) > cm_num_threshold

\* lines 373-375
candidates_could_be_cm ==
    IF Len(target_cm_structure.composition) # 0 /\ target_is_monolithic
    THEN Len(candidates_after_classification) = 1
    ELSE Len(candidates_after_classification) > cm_num_threshold

\* line 378
combined_duration_sec ==
    current_section.end_sec - candidates_after_classification[1].start_sec

\* line 393 with the assignment left out: the candidates are kept as they are
reset_candidates_keepAll(candidates) == candidates

\* line 393
reset_candidates(candidates) == <<candidates[Len(candidates)]>>

\* one iteration of the loop of construct_cm_sections (lines 365-393)
MatchStep ==
    /\ pc = "match"
    /\ index < Len(silent_sections)
    /\ LET candidates == candidates_after_classification
           matched ==
               /\ candidates_could_be_cm
               /\ nominal_cm_duration < combined_duration_sec
               /\ combined_duration_sec < nominal_cm_duration + margin_sec
           advanced == advance_structure(structure_reference + 1)
           exhausted == matched /\ advanced.break
       IN  /\ duration_sec_units' =
                IF target_is_monolithic
                THEN append_duration(duration_sec_units,
                         Lookup(target_cm_structure.composition, "monolithic_cm")).receiver
                ELSE duration_sec_units
           /\ index' = index + 1
           /\ outcome' =
                [kind |-> IF ~candidates_could_be_cm THEN "gate_failed"
                          ELSE IF combined_duration_sec <= nominal_cm_duration THEN "short"
                          ELSE IF matched THEN "matched"
                          ELSE "overshoot",
                 count |-> Len(candidates)]
           /\ cm_divider_candidates' =
                IF ~candidates_could_be_cm \/ combined_duration_sec <= nominal_cm_duration
                   \/ exhausted
                THEN candidates
                ELSE reset_candidates(candidates)
           /\ IF matched
              THEN /\ cm_sections' = Append(cm_sections,
                          get_actual_cm_section(target_cm_structure,
                              candidates[1].end_sec, current_section.start_sec))
                   /\ matches' = Append(matches,
                          [structure_reference |-> structure_reference, index |-> index,
                           anchor |-> candidates[1].end_sec])
                   /\ structure_reference' = structure_reference + 1
                   /\ pc' = IF exhausted THEN "generate" ELSE pc
                   /\ target_cm_structure' = advanced.target_cm_structure
                   /\ nominal_cm_duration' = advanced.nominal_cm_duration
              ELSE UNCHANGED <<cm_sections, matches, structure_reference, pc,
                               target_cm_structure, nominal_cm_duration>>
    /\ UNCHANGED <<silent_sections, margin_sec, continuity>>
    /\ UNCHANGED <<unitVars, callVars, inputVars, scenes, error, run, first_result>>

\* the loop of construct_cm_sections ends and the function returns (line 394)
MatchReturn ==
    /\ pc = "match"
    /\ index = Len(silent_sections)
    /\ pc' = "generate"
    /\ UNCHANGED <<unitVars, callVars, inputVars, scanVars, duration_sec_units, scenes,
                   error, run, first_result>>

\* lines 419 and 423 ending the interval at the end of the last candidate
close_run_lastEnd(candidates) ==
    <<candidates[1].end_sec, candidates[Len(candidates)].end_sec>>

\* lines 419 and 423: the interval a run of candidates is emitted as
close_run(candidates) ==
    <<candidates[1].end_sec, candidates[Len(candidates)].start_sec>>

\* one iteration of the loop of search_cm_sections (lines 413-421)
SearchStep ==
    /\ pc = "search"
    /\ index < Len(silent_sections)
    /\ LET section == silent_sections[index + 1]
           following == SubSeq(silent_sections, index + 2, Len(silent_sections))
       IN  IF is_cm_divider_candidate(section, following, duration_sec_units, margin_sec)
           THEN /\ cm_divider_candidates' = Append(cm_divider_candidates, section)
                /\ continuity' = TRUE
                /\ UNCHANGED cm_sections
           ELSE IF continuity /\ Len(cm_divider_candidates) >= 2
           THEN /\ cm_sections' = Append(cm_sections, close_run(cm_divider_candidates))
                /\ cm_divider_candidates' = <<>>
                /\ continuity' = FALSE
           ELSE UNCHANGED <<cm_divider_candidates, continuity, cm_sections>>
    /\ index' = index + 1
    /\ UNCHANGED <<silent_sections, structure_reference, target_cm_structure, margin_sec,
                   nominal_cm_duration, matches, outcome>>
    /\ UNCHANGED <<unitVars, callVars, inputVars, duration_sec_units, pc, scenes, error,
                   run, first_result>>

\* the code of search_cm_sections after its loop (lines 422-424)
SearchReturn ==
    /\ pc = "search"
    /\ index = Len(silent_sections)
    /\ cm_sections' =
        IF Len(cm_divider_candidates) >= 2
        THEN Append(cm_sections, close_run(cm_divider_candidates))
        ELSE cm_sections
    /\ pc' = "generate"
    /\ UNCHANGED <<silent_sections, index, cm_divider_candidates, structure_reference,
                   target_cm_structure, margin_sec, nominal_cm_duration, continuity, matches, outcome>>
    /\ UNCHANGED <<unitVars, callVars, inputVars, duration_sec_units, scenes, error,
                   run, first_result>>

\* lines 270-279 and 299-308: silent_sections[0] and [-1], then generate_scenes
Generate ==
    /\ pc = "generate"
    /\ IF Len(silent_sections) = 0
       THEN /\ pc' = "raised"
            /\ error' = "IndexError"
            /\ UNCHANGED scenes
       ELSE LET r == generate_scenes(silent_sections[1].start_sec,
                                     silent_sections[Len(silent_sections)].end_sec,
                                     cm_sections,
                                     IF mode = "free" THEN 0 ELSE last_scene_duration)
            IN  IF r.error # "none"
                THEN /\ pc' = "raised"
                     /\ error' = r.error
                     /\ UNCHANGED scenes
                ELSE /\ pc' = "done"
                     /\ scenes' = r.scenes
                     /\ UNCHANGED error
    /\ UNCHANGED <<unitVars, callVars, inputVars, scanVars, duration_sec_units, run,
                   first_result>>

\* the caller repeats the call with the same arguments
Rerun ==
    /\ pc \in {"done", "raised"}
    /\ run = 1
    /\ run' = 2
    /\ first_result' = [error |-> error, scenes |-> scenes]
    /\ pc' = "extract"
    /\ scenes' = <<>>
    /\ error' = "none"
    /\ silent_sections' = <<>>
    /\ index' = 0
    /\ cm_divider_candidates' = <<>>
    /\ cm_sections' = <<>>
    /\ structure_reference' = 0
    /\ target_cm_structure' = NoStructure
    /\ margin_sec' = 0
    /\ nominal_cm_duration' = 0
    /\ continuity' = FALSE
    /\ matches' = <<>>
    /\ outcome' = NoOutcome
    /\ UNCHANGED <<unitVars, callVars, inputVars, duration_sec_units>>

Next ==
    \/ Extract
    \/ MatchStep
    \/ MatchReturn
    \/ SearchStep
    \/ SearchReturn
    \/ Generate
    \/ Rerun

Spec == Init /\ [][Next]_vars

ScenesOrdered(list) ==
    \A k \in 1..(Len(list) - 1) :
        /\ list[k][1] <= list[k + 1][1]
        /\ list[k][2] <= list[k + 1][1]

BetweenAdjacentScenes(list, cm) ==
    \E k \in 1..(Len(list) - 1) : list[k][2] <= cm[1] /\ cm[2] <= list[k + 1][1]

\* C1: every scene list the pipeline returns, in either mode, is sorted
\* ascending by start time with each scene's end not after the next scene's
\* start, and every CM section the matcher found lies between the end of one
\* scene and the start of the next.
C1_ScenesCoverage ==
    pc = "done" =>
        /\ ScenesOrdered(scenes)
        /\ \A i \in 1..Len(cm_sections) : BetweenAdjacentScenes(scenes, cm_sections[i])

\* C5: a second call on the same loudness, duration units and structures
\* returns the scene list the first call returned.
C5_SecondRunIdentical ==
    (run = 2 /\ pc = "done" /\ first_result.error = "none") =>
        scenes = first_result.scenes

\* C9: once its arguments are constructed, neither entry point raises: every
\* call returns a scene list, also when no silent section is found.
C9_NeverRaises == pc # "raised"

\* C6: the structure-guided matcher emits at most one CM section per supplied
\* structure, the k-th with the k-th structure; once the last structure is
\* matched the scan has stopped at the section that completed the match; with
\* no structure it returns the empty list without scanning.
C6_Exhaustion ==
    mode = "structure" =>
        /\ Len(cm_sections) <= Len(cm_structures)
        /\ Len(matches) = Len(cm_sections)
        /\ \A k \in 1..Len(matches) :
            /\ matches[k].structure_reference = k - 1
            /\ cm_sections[k] =
                 get_actual_cm_section(cm_structures[k],
                     matches[k].anchor, silent_sections[matches[k].index + 1].start_sec)
        /\ (Len(cm_structures) > 0 /\ Len(cm_sections) = Len(cm_structures)) =>
            /\ pc # "match"
            /\ index = matches[Len(matches)].index + 1
        /\ (Len(cm_structures) = 0 /\ pc \in {"generate", "done", "raised"}) =>
            /\ cm_sections = <<>>
            /\ index = 0

\* both of two different structures were matched, in their order, and the scan
\* stopped with a silent section left unexamined
C6_Witness ==
    /\ mode = "structure"
    /\ Len(cm_structures) = 2
    /\ cm_structures[1] # cm_structures[2]
    /\ Len(cm_sections) = 2
    /\ index < Len(silent_sections)
    /\ pc \in {"done", "raised"}

\* --------------------------------------------------------------------------
\* SpecSection: constructions of SilentSection. The frame indices are whole
\* multiples of a positive frame_per_sec, where the quotient is an integer.

MaxSectionSec == 4
SectionRates == {-1, 0, 1, 2}
SectionFrames(rate) ==
    IF rate > 0 THEN {k * rate : k \in -1..MaxSectionSec} ELSE -1..MaxSectionSec

\* SilentSection.duration_sec
duration_sec(self) == self.end_sec - self.start_sec

InitSection ==
    /\ IdleUnits
    /\ IdlePipeline
    /\ IdleCall

SectionConstruct ==
    /\ \E r \in SectionRates : \E s, e \in SectionFrames(r) :
        /\ call' = [fn |-> "SilentSection", start_frame_index |-> s,
                    end_frame_index |-> e, frame_per_sec |-> r]
        /\ ret' = SilentSection(s, e, r)
    /\ UNCHANGED <<unitVars, pipeVars>>

NextSection == SectionConstruct

SpecSection == InitSection /\ [][NextSection]_vars

\* C11: SilentSection raises when start_frame_index is negative, when
\* end_frame_index is not positive, when start_frame_index >= end_frame_index
\* or when frame_per_sec is not positive; an accepted section has
\* start_sec = start_frame_index / frame_per_sec and
\* end_sec = end_frame_index / frame_per_sec, hence 0 <= start_sec < end_sec
\* and duration_sec() = end_sec - start_sec > 0.
C11_SilentSectionConstructor ==
    (ret # Pending /\ call.fn = "SilentSection") =>
        /\ (\/ call.start_frame_index < 0
            \/ call.end_frame_index <= 0
            \/ call.start_frame_index >= call.end_frame_index
            \/ call.frame_per_sec <= 0) => ret.error # "none"
        /\ ret.error = "none" =>
            /\ ret.start_sec * call.frame_per_sec = call.start_frame_index
            /\ ret.end_sec * call.frame_per_sec = call.end_frame_index
            /\ 0 <= ret.start_sec
            /\ ret.start_sec < ret.end_sec
            /\ duration_sec(ret) = ret.end_sec - ret.start_sec
            /\ duration_sec(ret) > 0

\* frames 2 to 6 at two frames per second: the section from 1 s to 3 s
C11_Witness ==
    /\ ret # Pending
    /\ call.fn = "SilentSection"
    /\ call.start_frame_index = 2
    /\ call.end_frame_index = 6
    /\ call.frame_per_sec = 2
    /\ ret.error = "none"
    /\ ret.start_sec = 1
    /\ ret.end_sec = 3
    /\ duration_sec(ret) = 2

\* --------------------------------------------------------------------------
\* The loop of construct_cm_sections, step by step

\* the matcher is about to process current_section
Scanning == mode = "structure" /\ pc = "match" /\ index < Len(silent_sections)

\* the candidate-count condition holds for current_section and the combined
\* duration is at least the target's nominal duration plus the target's margin
Overshoot ==
    /\ candidates_could_be_cm
    /\ combined_duration_sec >=
         target_cm_structure.nominal_duration + target_cm_structure.margin_sec

\* C12 as stated: when the candidate-count condition holds for the current
\* silent section and combined >= nominal + margin of the target, the candidate
\* list is empty before the next silent section is processed.
C12_OvershootResetsToEmpty ==
    [][(Scanning /\ Overshoot) => cm_divider_candidates' = <<>>]_vars

\* C12, amended: when the candidate-count condition holds for the current
\* silent section and combined >= nominal + margin of the target, and the scan
\* goes on, the candidate list is reset to its most recent candidate alone
\* before the next silent section is processed.
C12_OvershootKeepsLastCandidate ==
    [][(Scanning /\ Overshoot /\ pc' = "match") =>
            cm_divider_candidates' =
                <<candidates_after_classification[Len(candidates_after_classification)]>>]_vars

\* an overshoot with two accumulated candidates has left the last one alone
C12_Witness ==
    /\ mode = "structure"
    /\ pc = "match"
    /\ outcome.kind = "overshoot"
    /\ outcome.count >= 2
    /\ Len(cm_divider_candidates) = 1
    /\ cm_divider_candidates[1] = silent_sections[index]

\* C13: at every step of the structure-guided scan the margin handed to the
\* classifier and used in the match band, and the nominal duration of the band,
\* are those of the structure currently targeted, also after the target moved
\* on to a structure built with another margin.
C13_MarginOfTarget ==
    (mode = "structure" /\ pc = "match") =>
        /\ margin_sec = target_cm_structure.margin_sec
        /\ nominal_cm_duration = target_cm_structure.nominal_duration

\* C14: every step of the structure-guided scan leaves the caller's duration
\* units as they were supplied, so they are unchanged when the matcher returns;
\* the classifier is handed exactly those units while the target has no
\* monolithic component, and those units widened by the target's monolithic
\* duration, and by nothing else, while it has one.
C14_TransientWidening ==
    [][Scanning =>
          /\ duration_sec_units' = duration_sec_units
          /\ ~target_is_monolithic => tmp_duration_sec_units = duration_sec_units
          /\ target_is_monolithic =>
                Range(tmp_duration_sec_units) =
                    Range(duration_sec_units)
                        \cup {Lookup(target_cm_structure.composition, "monolithic_cm")}]_vars

\* --------------------------------------------------------------------------
\* search_cm_sections

\* the i-th silent section is a divider candidate, as line 414 decides it
IsDividerCandidate(i) ==
    is_cm_divider_candidate(silent_sections[i],
        SubSeq(silent_sections, i + 1, Len(silent_sections)),
        duration_sec_units, margin_sec)

\* C15: every CM section search_cm_sections returns is (first.end_sec,
\* last.start_sec) of at least two silent sections that are consecutive in the
\* input and are all divider candidates: no silent section that is not a
\* candidate lies between the first and the last of them.
C15_ContiguousRuns ==
    (mode = "free" /\ pc \in {"search", "generate", "done"}) =>
        \A k \in 1..Len(cm_sections) :
            \E i, j \in 1..Len(silent_sections) :
                /\ i < j
                /\ \A m \in i..j : IsDividerCandidate(m)
                /\ cm_sections[k] = <<silent_sections[i].end_sec, silent_sections[j].start_sec>>

\* the left edge of each emitted CM section is not before the right edge of the
\* section emitted before it
EdgesInOrder ==
    \A k \in 1..(Len(cm_sections) - 1) :
        (cm_sections[k] # NoneValue /\ cm_sections[k + 1] # NoneValue) =>
            cm_sections[k][2] <= cm_sections[k + 1][1]

\* C16: when a match is emitted and the target moves on to the next structure,
\* the candidate list holds none of the silent sections accumulated for the
\* block just matched, and the left edge of each emitted CM section is not
\* before the right edge of the one emitted before it.
C16_BufferResetsPerBlock ==
    [][/\ (Scanning /\ Len(cm_sections') > Len(cm_sections) /\ pc' = "match") =>
            \A i \in 1..Len(cm_divider_candidates') :
                \A j \in 1..Len(candidates_after_classification) :
                    cm_divider_candidates'[i] # candidates_after_classification[j]
       /\ mode = "structure" => EdgesInOrder']_vars

\* --------------------------------------------------------------------------
\* SpecResolve: the two entry points called with structures that hold a scene
\* before or after the CM

ResolveStructures ==
    {c \in {NominalCMStructure(raw, IntValue(2)) :
                raw \in {<< <<"cm", IntValue(2)>> >>,
                         << <<"scene", IntValue(1)>>, <<"cm", IntValue(1)>> >>,
                         << <<"cm", IntValue(1)>>, <<"scene", IntValue(1)>> >>,
                         << <<"cm", IntValue(1)>>, <<"scene", IntValue(2)>> >>}} :
        c.error = "none"}

InitResolve == InitPipeline(ResolveStructures)

SpecResolve == InitResolve /\ [][Next]_vars

\* C17: the matcher calls get_actual_cm_section with the end_sec of the first
\* accumulated candidate as left edge and the start_sec of the silent section
\* that completed the match as right edge; a one-component structure gives
\* (left, right), two components with the scene declared first give
\* (left + scene, right), with the scene declared second (left, right - scene).
C17_Resolve ==
    [][(Scanning /\ Len(cm_sections') > Len(cm_sections)) =>
          LET composition == target_cm_structure.composition
              left_edge == candidates_after_classification[1].end_sec
              right_edge == current_section.start_sec
              emitted == cm_sections'[Len(cm_sections')]
          IN  /\ Len(cm_sections') = Len(cm_sections) + 1
              /\ Len(composition) = 1 => emitted = <<left_edge, right_edge>>
              /\ (Len(composition) = 2 /\ composition[1][1] = "scene") =>
                    emitted = <<left_edge + composition[1][2], right_edge>>
              /\ (Len(composition) = 2 /\ composition[2][1] = "scene") =>
                    emitted = <<left_edge, right_edge - composition[2][2]>>]_vars

\* a scene-first structure and then a scene-second structure were matched: the
\* first CM section lost a second on the left, the second one on the right
C17_Witness ==
    /\ mode = "structure"
    /\ Len(cm_structures) = 2
    /\ cm_structures[1].composition = << <<"scene", 1>>, <<"cm", 1>> >>
    /\ cm_structures[2].composition = << <<"cm", 1>>, <<"scene", 1>> >>
    /\ Len(matches) = 2
    /\ cm_sections[1] = <<matches[1].anchor + 1, silent_sections[matches[1].index + 1].start_sec>>
    /\ cm_sections[2] = <<matches[2].anchor, silent_sections[matches[2].index + 1].start_sec - 1>>

\* C18: in structure-free mode, a silent section that is not a divider
\* candidate while continuity is true and at least two candidates are
\* accumulated emits (first candidate's end_sec, last candidate's start_sec)
\* and resets the candidate list and continuity; any other section emits
\* nothing; at the end of the scan at least two accumulated candidates are
\* emitted the same way and fewer than two emit nothing.
C18_RunClosing ==
    [][(mode = "free" /\ pc = "search") =>
          LET n == Len(cm_divider_candidates)
              run_interval == <<cm_divider_candidates[1].end_sec,
                                cm_divider_candidates[n].start_sec>>
          IN  IF index < Len(silent_sections)
              THEN IF ~IsDividerCandidate(index + 1) /\ continuity /\ n >= 2
                   THEN /\ cm_sections' = Append(cm_sections, run_interval)
                        /\ cm_divider_candidates' = <<>>
                        /\ continuity' = FALSE
                   ELSE cm_sections' = cm_sections
              ELSE IF n >= 2
                   THEN cm_sections' = Append(cm_sections, run_interval)
                   ELSE cm_sections' = cm_sections]_vars

\* a run of two candidates was closed by the next section, which is not a
\* candidate, with a silent section left to scan
C18_Witness ==
    /\ mode = "free"
    /\ pc = "search"
    /\ index >= 3
    /\ index < Len(silent_sections)
    /\ ~IsDividerCandidate(index)
    /\ cm_sections = <<<<silent_sections[index - 2].end_sec, silent_sections[index - 1].start_sec>>>>
    /\ cm_divider_candidates = <<>>
    /\ ~continuity

\* --------------------------------------------------------------------------
\* The classifier's early stop (SpecCand)

\* the following sections are in ascending time order, as the extractor emits them
Ascending(following) ==
    \A i \in 1..(Len(following) - 1) : following[i].end_sec < following[i + 1].start_sec

\* C19: for following sections in ascending time order, is_cm_divider_candidate
\* returns true exactly when some following section anywhere in the list and
\* some unit u of the duration-unit set satisfy u < gap <= u + margin, where
\* gap = section.end_sec - self.start_sec; a gap equal to the largest unit plus
\* the margin counts.
C19_EarlyStopKeepsAnswer ==
    (/\ ret # Pending
     /\ call.fn = "is_cm_divider_candidate"
     /\ Ascending(call.following_sections)
     /\ WellFormedUnits(call.durations_sec)) =>
        ret.result =
            \E i \in 1..Len(call.following_sections) :
                \E u \in Range(call.durations_sec) :
                    LET gap == call.following_sections[i].end_sec - call.self.start_sec
                    IN  u < gap /\ gap <= u + call.margin_sec

\* C20: get_actual_cm_section returns a pair for every structure the
\* constructor accepts, a structure of cm and monolithic_cm included: every
\* element the structure-guided matcher appends is a pair (start_sec, end_sec),
\* and the scene generator reads it without an error.
C20_ResolveTotal ==
    mode = "structure" =>
        /\ \A k \in 1..Len(cm_sections) :
              /\ cm_sections[k] # NoneValue
              /\ Len(cm_sections[k]) = 2
        /\ error # "TypeError"

\* the candidate-count condition as the specification words it: exactly one
\* candidate when the target holds a monolithic component, otherwise at least
\* one when monolithic mode is on and at least two when it is not
CandidateCountGate ==
    LET n == Len(candidates_after_classification)
    IN  IF target_is_monolithic THEN n = 1
        ELSE IF has_monolithic_cm THEN n >= 1
        ELSE n >= 2

\* C21: for each silent section of the structure-guided scan, the duration
\* test is reached exactly when the candidate-count condition holds; when the
\* condition fails, or holds with combined <= the target's nominal duration,
\* the step emits nothing, leaves the structure cursor and the target where
\* they are, goes on scanning, and leaves the accumulated candidates unchanged
\* apart from the candidate appended in this step.
C21_CandidateGate ==
    [][Scanning =>
          /\ CandidateCountGate <=> outcome'.kind # "gate_failed"
          /\ (\/ ~CandidateCountGate
              \/ combined_duration_sec <= target_cm_structure.nominal_duration) =>
                /\ cm_sections' = cm_sections
                /\ structure_reference' = structure_reference
                /\ target_cm_structure' = target_cm_structure
                /\ pc' = pc
                /\ cm_divider_candidates' = candidates_after_classification]_vars

\* a section was appended as second candidate of a monolithic target, the
\* condition failed for it, and nothing was emitted
C21_Witness ==
    /\ mode = "structure"
    /\ pc = "match"
    /\ "monolithic_cm" \in Keys(target_cm_structure.composition)
    /\ outcome = [kind |-> "gate_failed", count |-> 2]
    /\ Len(cm_divider_candidates) = 2
    /\ cm_divider_candidates[2] = silent_sections[index]
    /\ cm_sections = <<>>
    /\ structure_reference = 0

====
